---- MODULE Spec2Model ----
(***************************************************************************)
(* A model of the ecmarkdown Tokenizer (src/src/tokenizer.ts).             *)
(*                                                                         *)
(* The input string is a sequence of one-character strings.  Offsets are   *)
(* 0-based as in the source; str[pos] of the source is CharAt(pos).        *)
(* Every scanning method of the class is an operator over a record t that  *)
(* holds the fields of the Tokenizer object the scan reads and writes.     *)
(***************************************************************************)
EXTENDS Integers, Sequences, FiniteSets, TLC

VARIABLES str, pos, line, column, queue, newline, lookahead, eof, previous,
          ret, op, raised, consumed, idScanned

vars == <<str, pos, line, column, queue, newline, lookahead, eof, previous,
          ret, op, raised, consumed, idScanned>>

\* ------------------------------------------------------------------ bounds

\* The longest input of the core, opaque and id families, counted in fragments.
MaxFrags == 3
\* The largest distance handed to peek.
MaxPeek == 2
\* The longest input of the escape family, counted in characters.
MaxEscLen == 4

\* ------------------------------------------------------- character classes

\* The letters that occur in the model's inputs.
Letters == {"a", "p", "r", "e", "i", "d", "x"}

\* /\d/
Digits == {"0", "1", "2", "3", "4", "5", "6", "7", "8", "9"}

\* /\w/ over the characters of the model
WordChars == Letters \cup Digits \cup {"_"}

IsWord(c) == c \in WordChars

\* /\s/ over the characters of the model
SpaceChars == {" ", "\t", "\n"}

IsSpace(c) == c \in SpaceChars

\* The backtick character, which a TLA+ string literal cannot hold.
Backtick == "BACKTICK"

\* The delimiter characters that have a token of their own.
Delims == {"*", "_", Backtick, "|", "~"}

isWhitespace(chr) == chr = " " \/ chr = "\t"

\* The characters isWhitespace accepts.
Blanks == {" ", "\t"}

isFormat(chr) ==
  chr = "*" \/ chr = "_" \/ chr = Backtick \/ chr = "<" \/ chr = "|" \/ chr = "~"

isCharsNoBackslash(chr) ==
  ~isFormat(chr) /\ chr # "\n" /\ chr # " " /\ chr # "\t" /\ chr # "\\"

isChars(chr) == ~isFormat(chr) /\ chr # "\n" /\ chr # " " /\ chr # "\t"

opaqueTags ==
  { <<"e", "m", "u", "-", "g", "r", "a", "m", "m", "a", "r">>,
    <<"e", "m", "u", "-", "p", "r", "o", "d", "u", "c", "t", "i", "o", "n">>,
    <<"p", "r", "e">>,
    <<"c", "o", "d", "e">>,
    <<"s", "c", "r", "i", "p", "t">>,
    <<"s", "t", "y", "l", "e">> }

\* ------------------------------------------------------------ the string

\* str[i] of the source: the character at 0-based offset i, undefined past the end.
CharAt(i) == IF i >= 0 /\ i < Len(str) THEN str[i + 1] ELSE "undefined"

\* str.slice(from, to) of the source, for 0 <= from.
slice(from, to) ==
  IF to > Len(str) THEN SubSeq(str, from + 1, Len(str)) ELSE SubSeq(str, from + 1, to)

\* The end of the longest run, from offset p, of characters of the set S.
RECURSIVE RunEnd(_, _)
RunEnd(S, p) ==
  IF p < Len(str) /\ CharAt(p) \in S THEN RunEnd(S, p + 1) ELSE p

IsDigit(c) == c \in Digits

\* scanDigits: the offset after the digits at p.
scanDigits(p) == RunEnd(Digits, p)

\* scanWhitespace: the offset after the spaces and tabs at p.
scanWhitespace(p) == RunEnd(Blanks, p)

\* A scanEscape for which a backslash does not escape a backslash.
scanEscapeFormatOnly(p) ==
  IF p + 1 = Len(str)
    THEN [pos |-> p + 1, out |-> <<"\\">>]
    ELSE IF isFormat(CharAt(p + 1))
           THEN [pos |-> p + 2, out |-> <<CharAt(p + 1)>>]
           ELSE [pos |-> p + 2, out |-> <<"\\", CharAt(p + 1)>>]

\* scanEscape, called with p at the backslash: the offset after the escape and
\* the text it stands for.
scanEscape(p) ==
  IF p + 1 = Len(str)
    THEN [pos |-> p + 1, out |-> <<"\\">>]
    ELSE LET chr == CharAt(p + 1)
         IN IF isFormat(chr) \/ chr = "\\"
              THEN [pos |-> p + 2, out |-> <<chr>>]
              ELSE [pos |-> p + 2, out |-> <<"\\", chr>>]

\* ----------------------------------------------------------------- regexps

NoMatch == [ok |-> FALSE, end |-> 0, name |-> <<>>, group2 |-> <<>>]

\* [\w-]
NameChars == WordChars \cup {"-"}

IsNameChar(c) == c \in NameChars

\* The attribute loop and the tail of tagRegexp, (\s+[\w]+(...)?)*\s*>, from
\* offset q: the offset after the closing > and the text of the last repetition of
\* the attribute group (empty when the group never matched), or end = -1.
\* Every = of the model's inputs directly follows the characters [id, so the
\* value alternative (\s*=\s*(...))? never matches and is left out.
RECURSIVE TagTail(_, _)
TagTail(q, last) ==
  LET q1 == RunEnd(SpaceChars, q)
  IN IF CharAt(q1) = ">" THEN [end |-> q1 + 1, group2 |-> last]
     ELSE IF q1 > q /\ IsWord(CharAt(q1))
       THEN LET q2 == RunEnd(WordChars, q1) IN TagTail(q2, slice(q, q2))
       ELSE [end |-> -1, group2 |-> <<>>]

\* str.slice(p).match(tagRegexp): whether it matches, the offset after match[0],
\* match[1] (the tag name) and match[2] (the last attribute, empty for undefined).
MatchTag(p) ==
  IF CharAt(p) # "<" THEN NoMatch
  ELSE LET q == IF CharAt(p + 1) \in {"/", "!"} THEN p + 2 ELSE p + 1
       IN IF ~IsWord(CharAt(q)) THEN NoMatch
          ELSE LET n == RunEnd(NameChars, q)
                   tl == TagTail(n, <<>>)
               IN IF tl.end < 0 THEN NoMatch
                  ELSE [ok |-> TRUE, end |-> tl.end, name |-> slice(q, n),
                        group2 |-> tl.group2]

\* tryScanTag at offset p; on a match pos moves to .end.
tryScanTag(p) ==
  IF CharAt(p) # "<" THEN NoMatch
  ELSE IF p + 1 < Len(str) /\ CharAt(p + 1) # "/" /\ CharAt(p + 1) # "!"
          /\ ~IsWord(CharAt(p + 1))
    THEN NoMatch
    ELSE MatchTag(p)

\* The least offset e >= q with str[e..e+2] = "-->", or -1.
RECURSIVE FindCommentEnd(_)
FindCommentEnd(q) ==
  IF q + 3 > Len(str) THEN -1
  ELSE IF CharAt(q) = "-" /\ CharAt(q + 1) = "-" /\ CharAt(q + 2) = ">" THEN q
  ELSE FindCommentEnd(q + 1)

\* tryScanComment at offset p (commentRegexp): on a match pos moves to .end.
tryScanComment(p) ==
  IF CharAt(p) = "<" /\ CharAt(p + 1) = "!" /\ CharAt(p + 2) = "-" /\ CharAt(p + 3) = "-"
    THEN LET e == FindCommentEnd(p + 4)
         IN IF e < 0 THEN [ok |-> FALSE, end |-> 0] ELSE [ok |-> TRUE, end |-> e + 3]
    ELSE [ok |-> FALSE, end |-> 0]

\* An idRegexp without its trailing space.
MatchIdNoSpace(p) ==
  IF CharAt(p) = "[" /\ CharAt(p + 1) = "i" /\ CharAt(p + 2) = "d" /\ CharAt(p + 3) = "="
     /\ CharAt(p + 4) = "\"" /\ IsNameChar(CharAt(p + 5))
     /\ CharAt(RunEnd(NameChars, p + 5)) = "\""
     /\ CharAt(RunEnd(NameChars, p + 5) + 1) = "]"
    THEN [ok |-> TRUE, end |-> RunEnd(NameChars, p + 5) + 2,
          value |-> slice(p + 5, RunEnd(NameChars, p + 5))]
    ELSE [ok |-> FALSE, end |-> 0, value |-> <<>>]

\* str.slice(p).match(idRegexp): the offset after match[0] and match[1].
MatchId(p) ==
  IF CharAt(p) = "[" /\ CharAt(p + 1) = "i" /\ CharAt(p + 2) = "d" /\ CharAt(p + 3) = "="
     /\ CharAt(p + 4) = "\"" /\ IsNameChar(CharAt(p + 5))
    THEN LET e == RunEnd(NameChars, p + 5)
         IN IF CharAt(e) = "\"" /\ CharAt(e + 1) = "]" /\ CharAt(e + 2) = " "
              THEN [ok |-> TRUE, end |-> e + 3, value |-> slice(p + 5, e)]
              ELSE [ok |-> FALSE, end |-> 0, value |-> <<>>]
    ELSE [ok |-> FALSE, end |-> 0, value |-> <<>>]

\* ------------------------------------------------------ the Tokenizer object

\* The fields of the Tokenizer that scanning reads and writes, as one record.
Self ==
  [pos |-> pos, line |-> line, column |-> column, queue |-> queue,
   lookahead |-> lookahead, newline |-> newline, eof |-> eof, raised |-> "none"]

getLocation(t) == [offset |-> t.pos, line |-> t.line, column |-> t.column]

\* locate: the line and column after the token, and the token with its location.
\* A token is [name, contents, location]; EOF and id carry no contents (<<>>),
\* and the id token's value is in the field value.
locate(t, name, contents, value, startPos) ==
  LET t2 == IF name = "linebreak"
              THEN [t EXCEPT !.column = 1, !.line = t.line + 1]
              ELSE IF name = "parabreak"
                THEN [t EXCEPT !.column = 1, !.line = t.line + Len(contents)]
                ELSE [t EXCEPT !.column = t.column + (t.pos - startPos.offset)]
  IN [t |-> t2,
      tok |-> [name |-> name, contents |-> contents, value |-> value,
               location |-> [start |-> startPos, end |-> getLocation(t2)]]]

\* The push of a located token on _lookahead.
pushLookahead(r) == [r.t EXCEPT !.lookahead = Append(r.t.lookahead, r.tok)]

enqueueLookahead(t, name, contents, startPos) ==
  pushLookahead(locate(t, name, contents, <<>>, startPos))

\* An enqueue that splices _lookahead in before the token that triggered it.
pushQueueLookaheadFirst(r) ==
  [r.t EXCEPT !.queue = (r.t.queue \o r.t.lookahead) \o <<r.tok>>,
              !.lookahead = <<>>]

\* The push of a located token on the queue, and of _lookahead after it.
pushQueue(r) ==
  [r.t EXCEPT !.queue = Append(r.t.queue, r.tok) \o r.t.lookahead,
              !.lookahead = <<>>]

enqueue(t, name, contents, startPos) ==
  pushQueue(locate(t, name, contents, <<>>, startPos))

RECURSIVE scanToEndTag(_, _)

\* A scanToEndTag that stops at any tag of the name, start tag or end tag.
scanToEndTagStepAnyTag(endTag, p, tag) ==
  IF tag.ok
    THEN IF tag.name = endTag THEN tag.end ELSE scanToEndTag(endTag, tag.end)
    ELSE scanToEndTag(endTag, p + 1)

\* The body of the loop of scanToEndTag, with tag what tryScanTag found at p.
scanToEndTagStep(endTag, p, tag) ==
  IF tag.ok
    THEN IF tag.name = endTag /\ CharAt(p + 1) = "/"
           THEN tag.end
           ELSE scanToEndTag(endTag, tag.end)
    ELSE scanToEndTag(endTag, p + 1)

\* scanToEndTag with pos = p: the offset where the raw capture stops.
scanToEndTag(endTag, p) ==
  IF p < Len(str) THEN scanToEndTagStep(endTag, p, tryScanTag(p)) ELSE p

\* opaqueTags.has(tag[1]) && tag[2] !== '/'
isOpaqueStart(tag) == tag.name \in opaqueTags /\ tag.group2 # <<"/">>

\* The opaqueTag token of the start tag matched at offset p: tag[0] + rest, where
\* rest is what scanToEndTag returns, stopping at offset e.
opaqueContents(tag, p, e) ==
  [name |-> "opaqueTag", end |-> e, contents |-> slice(p, tag.end) \o slice(tag.end, e)]

\* The tag branch shared by scanChars and matchToken: the name, the end offset
\* and the contents (without held whitespace) of the token for the tag at p.
tagContents(tag, p) ==
  IF isOpaqueStart(tag)
    THEN opaqueContents(tag, p, scanToEndTag(tag.name, tag.end))
    ELSE [name |-> "tag", end |-> tag.end, contents |-> slice(p, tag.end)]

\* scanChars: the Tokenizer after the scan and the text scanned.
RECURSIVE scanCharsLoop(_, _)

\* The token c found at the < of a text run goes to _lookahead; the loop breaks.
scanCharsBreak(t, out, start, c) ==
  [t |-> enqueueLookahead([t EXCEPT !.pos = c.end], c.name, c.contents, start),
   out |-> out]

scanCharsComment(t, out, start, comment) ==
  IF comment.ok
    THEN scanCharsBreak(t, out, start,
           [name |-> "comment", end |-> comment.end,
            contents |-> slice(t.pos, comment.end)])
    ELSE scanCharsLoop([t EXCEPT !.pos = t.pos + 1], Append(out, "<"))

scanCharsTag(t, out, start, tag) ==
  IF tag.ok
    THEN scanCharsBreak(t, out, start, tagContents(tag, t.pos))
    ELSE scanCharsComment(t, out, start, tryScanComment(t.pos))

scanCharsEscape(t, out, e) == scanCharsLoop([t EXCEPT !.pos = e.pos], out \o e.out)

scanCharsLoop(t, out) ==
  IF t.pos < Len(str)
    THEN IF CharAt(t.pos) = "\\"
           THEN scanCharsEscape(t, out, scanEscape(t.pos))
         ELSE IF isChars(CharAt(t.pos))
           THEN scanCharsLoop([t EXCEPT !.pos = t.pos + 1], Append(out, CharAt(t.pos)))
         ELSE IF CharAt(t.pos) = "<"
           THEN scanCharsTag(t, out, getLocation(t), tryScanTag(t.pos))
         ELSE [t |-> t, out |-> out]
    ELSE [t |-> t, out |-> out]

scanChars(t) == scanCharsLoop(t, <<>>)

\* this.enqueue({ name: 'text', contents: prefix + this.scanChars() }, start)
enqueueScanned(sc, prefix, start) == enqueue(sc.t, "text", prefix \o sc.out, start)

enqueueText(t, prefix, start) == enqueueScanned(scanChars(t), prefix, start)

\* A step of matchToken: whether it returned, and the Tokenizer it left.
Return(t) == [done |-> TRUE, t |-> t]
FallThrough(t) == [done |-> FALSE, t |-> t]

\* A newline dispatch that does not set the line-start flag.
dispatchNewlineNoFlag(t, start, nextPos) ==
  IF nextPos = t.pos + 1
    THEN enqueue([t EXCEPT !.pos = nextPos], "linebreak", <<"\n">>, start)
    ELSE enqueue([t EXCEPT !.pos = nextPos], "parabreak", slice(t.pos, nextPos), start)

\* case '\n' of the dispatch, with nextPos the offset after the newlines.
dispatchNewline(t, start, nextPos) ==
  IF nextPos = t.pos + 1
    THEN enqueue([t EXCEPT !.newline = TRUE, !.pos = nextPos], "linebreak", <<"\n">>, start)
    ELSE enqueue([t EXCEPT !.newline = TRUE, !.pos = nextPos], "parabreak",
                 slice(t.pos, nextPos), start)

IsNewline(c) == c = "\n"

\* A dispatch of < that enqueues a tag and has no fallback to text.
dispatchTagNoFallback(t, start, tag, c) ==
  IF tag.ok THEN enqueue([t EXCEPT !.pos = c.end], c.name, c.contents, start) ELSE t

\* The < of the dispatch that is no comment start: a tag, or text.
dispatchTag(t, start, tag, c) ==
  IF tag.ok
    THEN enqueue([t EXCEPT !.pos = c.end], c.name, c.contents, start)
    ELSE enqueueText(t, <<>>, start)

\* The <!-- of the dispatch: a comment, or text.
dispatchComment(t, start, comment) ==
  IF comment.ok
    THEN enqueue([t EXCEPT !.pos = comment.end], "comment", slice(t.pos, comment.end),
                 start)
    ELSE enqueueText(t, <<>>, start)

\* The generic dispatch of matchToken (the switch on str[pos]).
dispatchChr(t, start, chr) ==
  IF chr = "*" THEN enqueue([t EXCEPT !.pos = t.pos + 1], "star", <<chr>>, start)
  ELSE IF chr = "_" THEN enqueue([t EXCEPT !.pos = t.pos + 1], "underscore", <<chr>>, start)
  ELSE IF chr = Backtick THEN enqueue([t EXCEPT !.pos = t.pos + 1], "tick", <<chr>>, start)
  ELSE IF chr = "|" THEN enqueue([t EXCEPT !.pos = t.pos + 1], "pipe", <<chr>>, start)
  ELSE IF chr = "~" THEN enqueue([t EXCEPT !.pos = t.pos + 1], "tilde", <<chr>>, start)
  ELSE IF chr = "\n" THEN dispatchNewline(t, start, RunEnd({"\n"}, t.pos + 1))
  ELSE IF isWhitespace(chr)
    THEN enqueue([t EXCEPT !.pos = scanWhitespace(t.pos)], "whitespace",
                 slice(t.pos, scanWhitespace(t.pos)), start)
  ELSE IF isChars(chr) THEN enqueueText(t, <<>>, start)
  ELSE IF chr = "<"
    THEN IF CharAt(t.pos + 1) = "!" /\ CharAt(t.pos + 2) = "-" /\ CharAt(t.pos + 3) = "-"
           THEN dispatchComment(t, start, tryScanComment(t.pos))
           ELSE dispatchTag(t, start, tryScanTag(t.pos),
                            tagContents(tryScanTag(t.pos), t.pos))
  ELSE [t EXCEPT !.raised = "Unexpected token"]

dispatch(t) == dispatchChr(t, getLocation(t), CharAt(t.pos))

\* The held whitespace ws as a token of its own, when there is any.
flushWhitespace(t, ws, start) ==
  IF Len(ws) > 0 THEN enqueue(t, "whitespace", ws, start) ELSE t

\* Line start, digits at wsEnd that end at dEnd.
lineStartDigits(t, start, ws, digits, dEnd) ==
  IF CharAt(dEnd) = "." /\ CharAt(dEnd + 1) = " "
    THEN enqueue([t EXCEPT !.pos = dEnd + 2], "ol", ws \o digits \o <<".", " ">>, start)
    ELSE enqueueText(flushWhitespace([t EXCEPT !.pos = dEnd], ws, start), digits, start)

\* Line start, a comment at wsEnd or none.
lineStartComment(t, start, ws, wsEnd, comment) ==
  IF comment.ok
    THEN Return(enqueue([t EXCEPT !.pos = comment.end], "comment",
                        ws \o slice(wsEnd, comment.end), start))
    ELSE FallThrough([t EXCEPT !.pos = wsEnd])

\* Line start, the token c of the tag matched at wsEnd.
lineStartTag(t, start, ws, c) ==
  IF c.name = "opaqueTag"
    THEN enqueue([t EXCEPT !.pos = c.end], "opaqueTag", ws \o c.contents, start)
    ELSE enqueue(flushWhitespace([t EXCEPT !.pos = c.end], ws, start), "tag",
                 c.contents, start)

\* Line start, a < at wsEnd.
lineStartLt(t, start, ws, wsEnd, tag) ==
  IF tag.ok
    THEN Return(lineStartTag(t, start, ws, tagContents(tag, wsEnd)))
    ELSE lineStartComment(t, start, ws, wsEnd, tryScanComment(wsEnd))

\* The line-start branch of matchToken, entered with _newline just cleared; the
\* whitespace ws was scanned from pos to wsEnd.  It returns, or falls through to
\* the dispatch with pos = wsEnd.
lineStartAt(t, start, ws, wsEnd) ==
  IF wsEnd >= Len(str)
    THEN IF Len(ws) > 0
           THEN Return(enqueue([t EXCEPT !.pos = wsEnd], "whitespace", ws, start))
           ELSE FallThrough([t EXCEPT !.pos = wsEnd])
  ELSE IF IsDigit(CharAt(wsEnd))
    THEN Return(lineStartDigits(t, start, ws, slice(wsEnd, scanDigits(wsEnd)),
                                scanDigits(wsEnd)))
  ELSE IF CharAt(wsEnd) = "*" /\ CharAt(wsEnd + 1) = " "
    THEN Return(enqueue([t EXCEPT !.pos = wsEnd + 2], "ul", ws \o <<"*", " ">>, start))
  ELSE IF CharAt(wsEnd) = "<"
    THEN lineStartLt(t, start, ws, wsEnd, tryScanTag(wsEnd))
  ELSE IF Len(ws) > 0
    THEN Return(enqueue([t EXCEPT !.pos = wsEnd], "whitespace", ws, start))
  ELSE FallThrough([t EXCEPT !.pos = wsEnd])

lineStart(t) ==
  lineStartAt(t, getLocation(t), slice(t.pos, scanWhitespace(t.pos)),
              scanWhitespace(t.pos))

\* The rest of matchToken after the line-start branch.
afterLineStart(ls) == IF ls.done THEN ls.t ELSE dispatch(ls.t)

\* matchToken: one call, which enqueues at least one token or raises.
matchToken(t) ==
  IF t.pos = Len(str)
    THEN enqueue([t EXCEPT !.eof = TRUE], "EOF", <<>>, getLocation(t))
    ELSE afterLineStart(IF t.newline THEN lineStart([t EXCEPT !.newline = FALSE])
                                     ELSE FallThrough(t))

\* ------------------------------------------------------------------ inputs

\* The concatenations of at most n elements of F.
RECURSIVE Concats(_, _)
Concats(F, n) ==
  IF n = 0 THEN {<<>>}
  ELSE LET prev == Concats(F, n - 1) IN prev \cup {s \o f : s \in prev, f \in F}

IdText == <<"[", "i", "d", "=", "\"", "x", "\"", "]", " ">>

\* The pieces of the list family: text, whitespace, line breaks, a digit and a
\* dot (an ordered-list marker when a space follows them, text when not) and a
\* star (a bullet when a space follows it at a line start, a delimiter when not).
ListFrags == { <<"a">>, <<" ">>, <<"\n">>, <<"1">>, <<".">>, <<"*">> }

\* The pieces of the markup family: a lone <, a tag and a comment, with the text,
\* whitespace, line breaks and digits that may stand around them.
MarkupFrags ==
  { <<"a">>, <<" ">>, <<"\n">>, <<"1">>, <<"<">>,
    <<"<", "p", ">">>,
    <<"<", "!", "-", "-", "-", "-", ">">> }

\* The pieces of the opaque family: start and end tags of an opaque element and
\* what may stand around and between them.
OpaqueFrags ==
  { <<"a">>, <<" ">>, <<"*">>,
    <<"<", "p", ">">>,
    <<"<", "p", "r", "e", ">">>,
    <<"<", "/", "p", "r", "e", ">">> }

\* The pieces of the id family: list markers, an id attribute and what may stand
\* around them.
IdFrags ==
  { <<"1", ".", " ">>, <<"*", " ">>, <<" ">>, <<"\n">>, <<"a">>, IdText }

\* The characters a backslash escapes besides itself: the delimiters and <.
FormatChars == Delims \cup {"<"}

\* The escape family: the strings over backslash, d and a for a delimiter and for
\* <, and for every delimiter d the strings that escape its first and its second
\* occurrence around an a.
EscInputs ==
  UNION { Concats({<<"\\">>, <<d>>, <<"a">>}, MaxEscLen) : d \in {"*", "<"} }
    \cup { <<"\\", d, "a", d>> : d \in Delims }
    \cup { <<d, "a", "\\", d>> : d \in Delims }

Inputs ==
  Concats(ListFrags, MaxFrags) \cup Concats(MarkupFrags, MaxFrags)
    \cup Concats(OpaqueFrags, MaxFrags) \cup Concats(IdFrags, MaxFrags)
    \cup EscInputs

\* -------------------------------------------------------------- operations

Undefined == [name |-> "undefined"]
Null == [name |-> "null"]

\* The token names handed to expect.
ExpectNames == {"text", "EOF"}

\* The loop of peek: matchToken until _eof or the queue holds dist tokens.
RECURSIVE peekLoop(_, _)
peekLoop(t, dist) ==
  IF ~t.eof /\ Len(t.queue) < dist /\ t.raised = "none"
    THEN peekLoop(matchToken(t), dist)
    ELSE t

\* What peek returns once its loop has stopped.
peekResult(q, dist) ==
  IF Len(q) < dist
    THEN IF Len(q) = 0 THEN Undefined ELSE q[Len(q)]
    ELSE q[dist]

\* A dequeue that pops the newest token instead of shifting the oldest.
dequeueLast(q) == IF Len(q) = 0 THEN q ELSE SubSeq(q, 1, Len(q) - 1)

\* dequeue: the queue after queue.shift().
dequeue(q) == IF Len(q) = 0 THEN q ELSE Tail(q)

\* A next() that dequeues EOF like any other token.
dropEOF(q, tok) == dequeue(q)

\* The queue after next() returned tok: EOF is left in the queue.
leaveEOF(q, tok) == IF tok.name # "EOF" THEN dequeue(q) ELSE q

\* The fields of the Tokenizer after a scan that left them as t.
Store(t) ==
  /\ pos' = t.pos
  /\ line' = t.line
  /\ column' = t.column
  /\ lookahead' = t.lookahead
  /\ newline' = t.newline
  /\ eof' = t.eof

Init ==
  /\ str \in Inputs
  /\ eof = FALSE
  /\ pos = 0
  /\ line = 1
  /\ column = 1
  /\ queue = <<>>
  /\ newline = TRUE
  /\ lookahead = <<>>
  /\ previous = Undefined
  /\ ret = Undefined
  /\ op = [name |-> "new", arg |-> 0]
  /\ raised = "none"
  /\ consumed = <<>>
  /\ idScanned = FALSE

\* peek(dist), with t the Tokenizer after the loop of peek.
PeekDone(t, dist) ==
  /\ Store(t)
  /\ queue' = t.queue
  /\ raised' = t.raised
  /\ ret' = IF t.raised = "none" THEN peekResult(t.queue, dist) ELSE Undefined
  /\ op' = [name |-> "peek", arg |-> dist]
  /\ UNCHANGED <<str, previous, consumed, idScanned>>

Peek(dist) == PeekDone(peekLoop(Self, dist), dist)

\* next(), with t the Tokenizer after this.peek() and tok what it returned.
\* Reading this.previous.name of an undefined token is a TypeError.
NextDone(t, tok) ==
  /\ Store(t)
  /\ op' = [name |-> "next", arg |-> 0]
  /\ IF t.raised # "none"
       THEN /\ raised' = t.raised
            /\ queue' = t.queue
            /\ ret' = Undefined
            /\ UNCHANGED <<previous, consumed>>
       ELSE /\ previous' = tok
            /\ IF tok = Undefined
                 THEN /\ raised' = "TypeError"
                      /\ queue' = t.queue
                      /\ ret' = Undefined
                      /\ UNCHANGED consumed
                 ELSE /\ raised' = "none"
                      /\ queue' = leaveEOF(t.queue, tok)
                      /\ consumed' = IF tok.name # "EOF" THEN Append(consumed, tok)
                                                         ELSE consumed
                      /\ ret' = tok
  /\ UNCHANGED <<str, idScanned>>

NextPeeked(t) == NextDone(t, peekResult(t.queue, 1))

NextTok == NextPeeked(peekLoop(Self, 1))

\* tryScanId(), with m the match of idRegexp at pos.
TryScanIdDone(m, r) ==
  /\ op' = [name |-> "tryScanId", arg |-> 0]
  /\ raised' = "none"
  /\ IF m.ok
       THEN /\ pos' = m.end
            /\ line' = r.t.line
            /\ column' = r.t.column
            /\ ret' = r.tok
            /\ idScanned' = TRUE
       ELSE /\ ret' = Null
            /\ UNCHANGED <<pos, line, column, idScanned>>
  /\ UNCHANGED <<str, queue, newline, lookahead, eof, previous, consumed>>

TryScanIdMatch(m) ==
  TryScanIdDone(m, locate([Self EXCEPT !.pos = m.end], "id", <<>>, m.value,
                          getLocation(Self)))

TryScanId == TryScanIdMatch(MatchId(pos))

\* expect(name), with t the Tokenizer after this.peek() and tok what it returned.
ExpectDone(t, tok, name) ==
  /\ Store(t)
  /\ queue' = t.queue
  /\ op' = [name |-> "expect", arg |-> name]
  /\ ret' = Undefined
  /\ raised' = IF t.raised # "none" THEN t.raised
               ELSE IF tok = Undefined THEN "TypeError"
               ELSE IF tok.name = name THEN "none"
               ELSE "Unexpected token; expected"
  /\ UNCHANGED <<str, previous, consumed, idScanned>>

ExpectPeeked(t, name) == ExpectDone(t, peekResult(t.queue, 1), name)

Expect(name) == ExpectPeeked(peekLoop(Self, 1), name)

Next ==
  \/ \E dist \in 1..MaxPeek : Peek(dist)
  \/ NextTok
  \/ TryScanId
  \/ \E name \in ExpectNames : Expect(name)

Spec == Init /\ [][Next]_vars

\* A next() would change the state: it has not just returned EOF.  (After a
\* next() that returned EOF another next() returns EOF again and changes nothing;
\* in every other state next() sets op or ret or consumes a token.)
NextPending == ~(op.name = "next" /\ ret.name = "EOF")

\* The caller keeps calling next(): weak fairness of next(), written out.  Where
\* WF has ENABLED <<NextTok>>_vars this has NextPending, and where it has a
\* <<NextTok>>_vars step this has a step that leaves op.name = "next", which
\* only NextTok does.
NextFairness == ([]<>(~NextPending)) \/ ([]<><<op'.name = "next">>_vars)

LiveSpec == Spec /\ NextFairness

\* ------------------------------------------------------------------ claims

\* A newly constructed Tokenizer.
NewSelf ==
  [pos |-> 0, line |-> 1, column |-> 1, queue |-> <<>>, lookahead |-> <<>>,
   newline |-> TRUE, eof |-> FALSE, raised |-> "none"]

\* The tokens that next() returns, up to and including the first EOF, when only
\* next() is ever called on a Tokenizer in state t.
RECURSIVE NextOnly(_, _)
NextOnlyStep(t, tok, out) ==
  IF tok.name = "EOF" \/ tok = Undefined
    THEN Append(out, tok)
    ELSE NextOnly([t EXCEPT !.queue = leaveEOF(t.queue, tok)], Append(out, tok))

NextOnlyPeeked(t, out) ==
  IF t.raised # "none" THEN out ELSE NextOnlyStep(t, peekResult(t.queue, 1), out)

NextOnly(t, out) == NextOnlyPeeked(peekLoop(t, 1), out)

NoPeekRun == NextOnly(NewSelf, <<>>)

Min(a, b) == IF a < b THEN a ELSE b

\* The tokens the Tokenizer has produced so far, in the order of their delivery.
produced == consumed \o queue

IsPrefix(s, full) == Len(s) <= Len(full) /\ s = SubSeq(full, 1, Len(s))

PeekNextIndependent(ref) ==
  /\ IsPrefix(produced, ref)
  /\ op.name = "next" =>
       /\ raised = "none"
       /\ IF ret.name = "EOF"
            THEN Len(consumed) = Len(ref) - 1 /\ ret = ref[Len(ref)]
            ELSE Len(consumed) > 0 /\ ret = consumed[Len(consumed)]
  /\ op.name = "peek" => raised = "none" /\ ret = ref[Min(Len(consumed) + op.arg, Len(ref))]

\* C1: whatever peek(k) calls are interleaved with the next() calls, the tokens
\* next() returns are those of the run in which peek is never called: the tokens
\* consumed so far followed by the queued ones are always a prefix of that run
\* (peek removes nothing), next() returns the following token of that run, and
\* peek(k) returns the token k places ahead in it (EOF past its end), so that
\* peek(1) is the token the following next() returns.  Stated of the state after
\* each peek and each next.  (tryScanId, which moves pos between tokens, is set
\* aside: the claim is about peek and next.)
C1_PeekNeverChangesNext ==
  (~idScanned /\ op.name \in {"peek", "next"}) => PeekNextIndependent(NoPeekRun)

\* C1 witness: on "a *", a next() that returned the whitespace with the star
\* already queued by an earlier peek(2).
C1_Witness ==
  /\ str = <<"a", " ", "*">>
  /\ op.name = "next"
  /\ Len(consumed) = 2
  /\ ret.name = "whitespace"
  /\ Len(queue) = 1
  /\ queue[1].name = "star"
  /\ ~idScanned

Last(q) == q[Len(q)]

RECURSIVE Flatten(_)
Flatten(toks) ==
  IF toks = <<>> THEN <<>> ELSE Head(toks).contents \o Flatten(Tail(toks))

NoBackslash == \A i \in 1..Len(str) : str[i] # "\\"

\* next() has returned EOF: the whole input was delivered through next().
Delivered == op.name = "next" /\ ret.name = "EOF" /\ ~idScanned

\* C3: for an input without backslash, the contents of the tokens next() returned
\* before EOF, concatenated, are the input.
C3_Coverage == (Delivered /\ NoBackslash) => Flatten(consumed) = str

Breaks == {"linebreak", "parabreak"}

\* C4: the first token starts at offset 0, line 1, column 1; every later token
\* starts where the one before it ends; and a token that is no line or paragraph
\* break spans as many offsets and columns as it consumed characters (its
\* contents, in an input without escapes).
C4_Locations ==
  ~idScanned =>
    \A i \in 1..Len(produced) :
      LET loc == produced[i].location
      IN /\ i = 1 => loc.start = [offset |-> 0, line |-> 1, column |-> 1]
         /\ i > 1 => loc.start = produced[i - 1].location.end
         /\ produced[i].name \notin Breaks =>
              /\ loc.end.offset - loc.start.offset = loc.end.column - loc.start.column
              /\ NoBackslash => loc.end.offset - loc.start.offset = Len(produced[i].contents)

\* Token i of produced is the first of its line: the first token of the input, or
\* the one directly after a linebreak or parabreak token.
LineStartAt(i) == i = 1 \/ produced[i - 1].name \in Breaks

\* The offset at which the scan of token i began, for a token at a line start.
ScanStart(i) == IF i = 1 THEN 0 ELSE produced[i - 1].location.end.offset

\* The shape of the source at offset o: spaces and tabs up to .ws, digits up to
\* .digits, and whether ". " follows them.
ShapeAt(o) ==
  [ws |-> RunEnd(Blanks, o),
   digits |-> RunEnd(Digits, RunEnd(Blanks, o)),
   dotSpace |-> CharAt(RunEnd(Digits, RunEnd(Blanks, o))) = "."
                /\ CharAt(RunEnd(Digits, RunEnd(Blanks, o)) + 1) = " "]

IsMarkerShape(sh) == sh.digits > sh.ws /\ sh.dotSpace

OrderedListRule(i, o, sh) ==
  /\ produced[i].name = "ol" =>
       /\ LineStartAt(i)
       /\ IsMarkerShape(sh)
       /\ produced[i].contents = slice(o, sh.digits + 2)
  /\ (LineStartAt(i) /\ IsMarkerShape(sh)) => produced[i].name = "ol"
  /\ (LineStartAt(i) /\ sh.digits > sh.ws /\ ~sh.dotSpace) =>
       IF sh.ws > o
         THEN /\ produced[i].name = "whitespace"
              /\ produced[i].contents = slice(o, sh.ws)
              /\ i < Len(produced)
              /\ produced[i + 1].name = "text"
              /\ IsPrefix(slice(sh.ws, sh.digits), produced[i + 1].contents)
         ELSE /\ produced[i].name = "text"
              /\ IsPrefix(slice(sh.ws, sh.digits), produced[i].contents)

\* C5: a token is an ordered-list marker exactly when it is the first token of a
\* line and the source there is optional spaces and tabs, one or more digits and
\* ". "; its contents are exactly that text.  Digits at a line start without ". "
\* after them begin a text token, after a whitespace token for the held
\* whitespace if there is any.  (Never in the middle of a line: only first tokens
\* of a line are markers.)
C5_OrderedListMarker ==
  ~idScanned =>
    \A i \in 1..Len(produced) : OrderedListRule(i, ScanStart(i), ShapeAt(ScanStart(i)))

\* C5 witness: next() returned an indented marker that follows a line break.
C5_Witness ==
  /\ ~idScanned
  /\ op.name = "next"
  /\ ret.name = "ol"
  /\ ret.contents = <<" ", "1", ".", " ">>
  /\ Len(consumed) = 2
  /\ consumed[1].name = "linebreak"

\* The name of the delimiter token of each delimiter character.
DelimName(d) ==
  CASE d = "*" -> "star"
    [] d = "_" -> "underscore"
    [] d = Backtick -> "tick"
    [] d = "|" -> "pipe"
    [] d = "~" -> "tilde"

\* The text of the input from index i on, with the backslash dropped before
\* every character of Dropped and kept before any other character and at the end.
RECURSIVE Unescape(_, _)
Unescape(Dropped, i) ==
  IF i > Len(str) THEN <<>>
  ELSE IF str[i] # "\\" THEN <<str[i]>> \o Unescape(Dropped, i + 1)
  ELSE IF i = Len(str) THEN <<"\\">>
  ELSE IF str[i + 1] \in Dropped THEN <<str[i + 1]>> \o Unescape(Dropped, i + 2)
  ELSE <<"\\", str[i + 1]>> \o Unescape(Dropped, i + 2)

\* The name and contents of every token of toks.
Shapes(toks) == [i \in 1..Len(toks) |-> <<toks[i].name, toks[i].contents>>]

\* Inputs of backslashes, letters, delimiters and <: no tag, comment, whitespace
\* or line break, so all that varies is the escaping.
EscapeOnly == \A i \in 1..Len(str) : str[i] \in FormatChars \cup {"\\", "a"}

EscapeForms ==
  \A d \in Delims :
    /\ str = <<"\\", d, "a", d>> =>
         Shapes(consumed) = <<<<"text", <<d, "a">>>>, <<DelimName(d), <<d>>>>>>
    /\ str = <<d, "a", "\\", d>> =>
         Shapes(consumed) = <<<<DelimName(d), <<d>>>>, <<"text", <<"a", d>>>>>>

\* C6 as stated: the two escape forms hold for every delimiter d; the tokens
\* delivered carry the input with the backslash dropped before a delimiter
\* (* _ BACKTICK | ~) or a backslash, and kept before every other character and at
\* the end of the input.
C6_BackslashKeptBeforeNonDelimiter ==
  (Delivered /\ EscapeOnly) =>
     /\ EscapeForms
     /\ Flatten(consumed) = Unescape(Delims \cup {"\\"}, 1)

\* C6 amended: the two escape forms hold for every delimiter d; the tokens
\* delivered carry the input with the backslash dropped before a delimiter, a <
\* or a backslash, and kept before every other character and at the end of the
\* input.
C6_Escapes ==
  (Delivered /\ EscapeOnly) =>
     /\ EscapeForms
     /\ Flatten(consumed) = Unescape(FormatChars \cup {"\\"}, 1)

\* C6 witness: \*a* was delivered as the text *a and a star.
C6_Witness ==
  /\ Delivered
  /\ str = <<"\\", "*", "a", "*">>
  /\ Len(consumed) = 2
  /\ consumed[1].name = "text"
  /\ consumed[2].name = "star"

\* The offset of the < of the tag that token tk begins with: the start of the
\* token, after the held line-start whitespace if there is any.
TagPos(tk) == RunEnd(Blanks, tk.location.start.offset)

\* An end tag named name is recognized at offset e.
IsEndTagAt(e, name) ==
  CharAt(e) = "<" /\ CharAt(e + 1) = "/" /\ MatchTag(e).ok /\ MatchTag(e).name = name

\* The offset after the first end tag named name at or after offset q, or the
\* end of the input if there is none.
FirstEndTag(name, q) ==
  IF \E e \in q..Len(str) : IsEndTagAt(e, name)
    THEN MatchTag(CHOOSE e \in q..Len(str) :
                    /\ IsEndTagAt(e, name)
                    /\ \A f \in q..(e - 1) : ~IsEndTagAt(f, name)).end
    ELSE Len(str)

TokenKinds ==
  {"star", "underscore", "tick", "pipe", "tilde", "whitespace", "linebreak",
   "parabreak", "tag", "comment", "opaqueTag", "ol", "ul"}

\* Token j lies, in whole or in part, inside the offsets from..to.
Inside(j, from, to) ==
  /\ produced[j].location.start.offset < to
  /\ produced[j].location.end.offset > from
  /\ produced[j].location.end.offset > produced[j].location.start.offset

IsOpaqueStartAt(p, m) == m.ok /\ m.name \in opaqueTags /\ CharAt(p + 1) # "/"

OpaqueRule(i, p, m, stop) ==
  /\ (produced[i].name = "opaqueTag" /\ CharAt(p + 1) # "/") =>
       /\ IsOpaqueStartAt(p, m)
       /\ produced[i].contents = slice(produced[i].location.start.offset, stop)
       /\ produced[i].location.end.offset = stop
       /\ i < Len(produced) => produced[i + 1].location.start.offset = stop
       /\ \A j \in 1..Len(produced) :
            (j # i /\ produced[j].name \in TokenKinds) => ~Inside(j, p, stop)
  /\ produced[i].name = "tag" => ~IsOpaqueStartAt(p, m)

\* C7: a recognized start tag with an opaque name never becomes an ordinary tag
\* token; the opaqueTag token that begins with a start tag has as contents the
\* source from its start (held line-start whitespace included) to the end of the
\* first following end tag of the same name, or to the end of the input; the next
\* token starts where it ends, and no delimiter, whitespace, break, tag, comment
\* or other opaqueTag token lies inside it.
C7_OpaqueCapture ==
  ~idScanned =>
    \A i \in 1..Len(produced) :
      OpaqueRule(i, TagPos(produced[i]), MatchTag(TagPos(produced[i])),
                 IF MatchTag(TagPos(produced[i])).ok
                   THEN FirstEndTag(MatchTag(TagPos(produced[i])).name,
                                    MatchTag(TagPos(produced[i])).end)
                   ELSE 0)

\* C7 witness: next() returned <pre>*</pre> as one opaqueTag token.
C7_Witness ==
  /\ ~idScanned
  /\ op.name = "next"
  /\ ret.name = "opaqueTag"
  /\ ret.contents = <<"<", "p", "r", "e", ">", "*", "<", "/", "p", "r", "e", ">">>
  /\ queue = <<>>

\* C8: no operation ends in a raise other than the one of expect on a token of
\* another name: matchToken never reaches its 'Unexpected token' raise, peek and
\* next always return a token, and tryScanId returns a token or null.
C8_OnlyExpectRaises ==
  /\ raised \in {"none", "Unexpected token; expected"}
  /\ raised # "none" =>
       /\ op.name = "expect"
       /\ Len(queue) > 0
       /\ queue[1].name # op.arg
  /\ op.name \in {"peek", "next"} => ret # Undefined
  /\ op.name = "tryScanId" => (ret = Null \/ ret.name = "id")

\* C8 witness: expect("text") raised on a backslash-only input that is at EOF.
C8_Witness ==
  /\ raised = "Unexpected token; expected"
  /\ op = [name |-> "expect", arg |-> "text"]
  /\ str = <<"\\">>
  /\ eof
  /\ queue[1].name = "EOF"
  /\ Len(consumed) = 1

\* The offsets e of the closing quote of an id pattern that begins at offset p:
\* [id=" then one or more word characters or hyphens up to e, then "] and a space.
IdQuoteEnds(p) ==
  {e \in (p + 6)..Len(str) :
     /\ slice(p, p + 5) = <<"[", "i", "d", "=", "\"">>
     /\ \A k \in (p + 5)..(e - 1) : IsWord(CharAt(k)) \/ CharAt(k) = "-"
     /\ CharAt(e) = "\""
     /\ CharAt(e + 1) = "]"
     /\ CharAt(e + 2) = " "}

TryScanIdRule(ends) ==
  IF ends = {}
    THEN /\ ret' = Null
         /\ UNCHANGED <<pos, line, column, queue, newline>>
    ELSE \E e \in ends :
           /\ ret'.name = "id"
           /\ ret'.value = slice(pos + 5, e)
           /\ pos' = e + 3
           /\ column' = column + (e + 3 - pos)
           /\ UNCHANGED <<line, queue>>
           /\ ret'.location.start = [offset |-> pos, line |-> line, column |-> column]
           /\ ret'.location.end = [offset |-> pos', line |-> line, column |-> column']

\* C9: a tryScanId where the source at pos is not an id pattern returns null and
\* leaves pos, line, column, the queue and the line-start flag unchanged; where it
\* is one, tryScanId returns an id token whose value is the text between the
\* quotes, advances pos and column by the length of the match, leaves line and the
\* queue unchanged, and the location of the token spans the match.
C9_TryScanId == [][op'.name = "tryScanId" => TryScanIdRule(IdQuoteEnds(pos))]_vars

\* C9 witness: tryScanId returned the id x right after an ordered-list marker.
C9_Witness ==
  /\ op.name = "tryScanId"
  /\ ret.name = "id"
  /\ ret.value = <<"x">>
  /\ Len(consumed) = 1
  /\ consumed[1].name = "ol"
  /\ pos = consumed[1].location.end.offset + 9

\* C10: no opaqueTag token begins with an end tag: raw capture starts only at a
\* start tag.
C10_EndTagIsOrdinaryTag ==
  ~idScanned =>
    \A i \in 1..Len(produced) :
      produced[i].name = "opaqueTag" => CharAt(TagPos(produced[i]) + 1) # "/"

\* The offset at which the characters of text token tk begin: its start, after
\* the line-start whitespace that was delivered as a token of its own.
TextBegin(tk) == RunEnd(Blanks, tk.location.start.offset)

\* A tag or a comment is recognized at offset e.
MarkupAt(e) == tryScanTag(e).ok \/ tryScanComment(e).ok

\* The offset after the tag or comment recognized at offset e.
MarkupEnd(e) == IF tryScanTag(e).ok THEN tryScanTag(e).end ELSE tryScanComment(e).end

MarkupKinds == {"tag", "opaqueTag", "comment"}

\* Text token i, whose characters are the source from b to e, and what follows it.
LookaheadRule(i, b, e) ==
  /\ e > b
  /\ (NoBackslash /\ ~idScanned) =>
       /\ produced[i].contents = slice(b, e)
       /\ MarkupAt(e) =>
            /\ i < Len(produced)
            /\ produced[i + 1].name \in MarkupKinds
            /\ produced[i + 1].location.start.offset = e
            /\ IsPrefix(slice(e, MarkupEnd(e)), produced[i + 1].contents)

\* C11: the lookahead buffer is empty after every operation; every text token is
\* non-empty; where the source right after the characters of a text token is a
\* recognized tag or comment, the token directly after the text token is that tag
\* or comment; and the tokens are in source order: along the produced tokens
\* neither the start nor the end offset ever decreases.
C11_LookaheadOrder ==
  /\ lookahead = <<>>
  /\ \A i \in 1..Len(produced) :
       produced[i].name = "text" =>
         LookaheadRule(i, TextBegin(produced[i]),
                       TextBegin(produced[i]) + Len(produced[i].contents))
  /\ ~idScanned =>
       \A i \in 1..(Len(produced) - 1) :
         /\ produced[i].location.start.offset <= produced[i + 1].location.start.offset
         /\ produced[i].location.end.offset <= produced[i + 1].location.end.offset

\* C11 witness: on a<p>* one peek(1) queued the text a and, right after it, the
\* tag <p> found while scanning the text; the star is not scanned yet.
C11_Witness ==
  /\ str = <<"a", "<", "p", ">", "*">>
  /\ op = [name |-> "peek", arg |-> 1]
  /\ Len(queue) = 2
  /\ ret = queue[1]
  /\ queue[1].name = "text"
  /\ queue[1].contents = <<"a">>
  /\ queue[2].name = "tag"
  /\ lookahead = <<>>
  /\ pos = 4

\* What one call of matchToken in the present state leaves, m, against the state.
MatchTokenProgress(m) ==
  /\ m.raised = "none"
  /\ Len(m.queue) > Len(queue)
  /\ IF pos < Len(str)
       THEN m.pos > pos /\ m.pos <= Len(str)
       ELSE /\ m.eof
            /\ m.pos = pos
            /\ Len(m.queue) = Len(queue) + 1
            /\ Last(m.queue).name = "EOF"

\* The offset at which the iteration of the loop of scanToEndTag that begins at
\* offset p leaves pos.
ScanToEndTagIteration(p) == IF tryScanTag(p).ok THEN tryScanTag(p).end ELSE p + 1

\* Every iteration of the raw-capture loop, from any offset of the input and for
\* any opaque name, increases pos, and the loop stops inside the input.
ScanToEndTagProgress ==
  \A p \in 0..(Len(str) - 1) :
    /\ ScanToEndTagIteration(p) > p
    /\ \A endTag \in opaqueTags :
         scanToEndTag(endTag, p) > p /\ scanToEndTag(endTag, p) <= Len(str)

ScanProgress ==
  /\ pos <= Len(str)
  /\ ~eof => MatchTokenProgress(matchToken(Self))
  /\ Len(produced) <= Len(str) + 1
  /\ op.name = "new" => ScanToEndTagProgress
  /\ op.name \in {"peek", "next"} => ret # Undefined

\* C12: in every reachable state before EOF, a call of matchToken enqueues at
\* least one token, strictly increases pos when pos < length and enqueues exactly
\* EOF when pos = length; there are never more tokens than characters plus EOF;
\* every iteration of the loop of scanToEndTag increases pos; every peek and next
\* returns a token; and a caller that keeps calling next() is eventually
\* returned EOF.
C12_ScanTerminates == []ScanProgress /\ <>(op.name = "next" /\ ret.name = "EOF")

\* C12 witness: next() returned EOF after an opaqueTag token, whose raw capture
\* ran to the end of the input, was returned after a text token.
C12_Witness ==
  /\ str = <<"a", "<", "p", "r", "e", ">", "*">>
  /\ op.name = "next"
  /\ ret.name = "EOF"
  /\ eof
  /\ Len(consumed) = 2
  /\ consumed[2].name = "opaqueTag"
  /\ pos = Len(str)

ListMarkers == {"ol", "ul"}

\* What a tryScanId that examines the source at offset o returns: an id token
\* with the quoted text as value, or null.
IdOutcomeAt(o, ends) ==
  IF ends = {}
    THEN ret' = Null
    ELSE \E e \in ends :
           /\ ret'.name = "id"
           /\ ret'.value = slice(o + 5, e)
           /\ ret'.location.start.offset = o
           /\ pos' = e + 3

\* C13: a tryScanId called right after next() returned a list marker examines the
\* source right after that marker, whatever was peeked before: it returns the id
\* found at the offset where the marker ends, or null if there is none there.
C13_TryScanIdAfterMarker ==
  [][(op.name = "next" /\ ret.name \in ListMarkers /\ op'.name = "tryScanId") =>
       IdOutcomeAt(ret.location.end.offset, IdQuoteEnds(ret.location.end.offset))]_vars

====
